---- MODULE Spec2Model ----
(***************************************************************************)
(* Model of the intake form 0_基本情報入力.py (basic information input):   *)
(* the script body that Streamlit re-runs on every interaction, the save   *)
(* callback, the validators and the numeral normalizer.                    *)
(*                                                                         *)
(* Text values are sequences of Unicode code points.  Dictionary keys and  *)
(* option labels that are Japanese in the source carry romanized names:    *)
(*   gyoshu_daibunrui = 業種_大分類     gyoshu_chubunrui = 業種_中分類     *)
(*   omona_shohin_service = 主な商品・サービス     kokyakuso = 顧客層      *)
(*   kakakutai = 価格帯   hanbai_hoho = 販売方法   jugyoin_su = 従業員数   *)
(*   arari_ritsu = 粗利率 (gross margin)                                   *)
(***************************************************************************)
EXTENDS Integers, Sequences, FiniteSets

VARIABLES
    ui,          \* st.session_state["user_input"]: the intake record (key -> value)
    errors,      \* st.session_state["errors"]: field -> message
    wstate,      \* the widgets on screen: name -> [id: parameters rendered with, val: value shown]
    btn,         \* the two buttons on screen: enabled or not
    artifacts,   \* downstream keys present in st.session_state
    step,        \* the step counter of the session
    page,        \* page shown: "form" or "next"
    nextExists,  \* (ROOT/NEXT_PAGE).exists()
    accepted,    \* the interpreter compiles the file
    entries,     \* entries the user has made on widgets in the session
    partials,    \* interrupted runs in the session
    pc,          \* "rerun": a script run is pending; "idle": run complete, widgets shown
    last,        \* name of the last operation
    inp,         \* argument of to_half under SpecNorm
    out,         \* to_half(inp)
    out2         \* to_half(out)

vars == <<ui, errors, wstate, btn, artifacts, step, page, nextExists, accepted, entries, partials,
          pc, last, inp, out, out2>>

(***************************************************************************)
(* Bounds                                                                  *)
(***************************************************************************)
NumMajors == 2      \* the user picks among the first NumMajors major categories
NumCustomers == 1   \* the user picks among the first NumCustomers customer segments
NumRadio == 2       \* the user picks among the first NumRadio price tiers and sales channels
MaxEntries == 3     \* entries on widgets in one session
MaxPartial == 1     \* interrupted runs in one session
MaxDownstream == 1  \* downstream pages that have stored their output
MaxLen == 3         \* longest argument of to_half under SpecNorm
MaxEmpLen == 2      \* longest employee-count text under SpecValidate

(***************************************************************************)
(* Dictionaries                                                            *)
(***************************************************************************)
EmptyDict == [k \in {} |-> <<>>]
Put(d, k, v) == [x \in (DOMAIN d) \cup {k} |-> IF x = k THEN v ELSE d[x]]
Get(d, k, dflt) == IF k \in DOMAIN d THEN d[k] ELSE dflt
SetDefault(d, k, v) == IF k \in DOMAIN d THEN d ELSE Put(d, k, v)
IndexOf(seq, x) == CHOOSE i \in 1..Len(seq) : seq[i] = x /\ \A j \in 1..(i-1) : seq[j] # x
Range(seq) == {seq[i] : i \in 1..Len(seq)}

(***************************************************************************)
(* Master data and option lists                                            *)
(***************************************************************************)
MajorLabels == <<"A","B","C","D","E","F","G","H","I","J","K","L","M","N","O","P","Q","R","S","T">>
MidTable == <<
    (* A: 農業，林業 (line 21) *)
    <<[code |-> "01", name |-> "name01"], [code |-> "02", name |-> "name02"]>>,
    (* B: 漁業 (line 25) *)
    <<[code |-> "03", name |-> "name03"], [code |-> "04", name |-> "name04"]>>,
    (* C: 鉱業，採石業，砂利採取業 (line 29) *)
    <<[code |-> "05", name |-> "name05"]>>,
    (* D: 建設業 (line 32) *)
    <<[code |-> "06", name |-> "name06"], [code |-> "07", name |-> "name07"], [code |-> "08", name |-> "name08"]>>,
    (* E: 製造業 (line 37) *)
    <<[code |-> "09", name |-> "name09"], [code |-> "10", name |-> "name10"], [code |-> "11", name |-> "name11"], [code |-> "12", name |-> "name12"], [code |-> "13", name |-> "name13"], [code |-> "14", name |-> "name14"], [code |-> "15", name |-> "name15"], [code |-> "16", name |-> "name16"], [code |-> "17", name |-> "name17"], [code |-> "18", name |-> "name18"], [code |-> "19", name |-> "name19"], [code |-> "20", name |-> "name20"], [code |-> "21", name |-> "name21"], [code |-> "22", name |-> "name22"], [code |-> "23", name |-> "name23"], [code |-> "24", name |-> "name24"], [code |-> "25", name |-> "name25"], [code |-> "26", name |-> "name26"], [code |-> "27", name |-> "name27"], [code |-> "28", name |-> "name28"], [code |-> "29", name |-> "name29"], [code |-> "30", name |-> "name30"], [code |-> "31", name |-> "name31"], [code |-> "32", name |-> "name32"]>>,
    (* F: 電気・ガス・熱供給・水道業 (line 63) *)
    <<[code |-> "33", name |-> "name33"], [code |-> "34", name |-> "name34"], [code |-> "35", name |-> "name35"], [code |-> "36", name |-> "name36"]>>,
    (* G: 情報通信業 (line 69) *)
    <<[code |-> "37", name |-> "name37"], [code |-> "38", name |-> "name38"], [code |-> "39", name |-> "name39"], [code |-> "40", name |-> "name40"], [code |-> "41", name |-> "name41"]>>,
    (* H: 運輸業，郵便業 (line 76) *)
    <<[code |-> "42", name |-> "name42"], [code |-> "43", name |-> "name43"], [code |-> "44", name |-> "name44"], [code |-> "45", name |-> "name45"], [code |-> "46", name |-> "name46"], [code |-> "47", name |-> "name47"], [code |-> "48", name |-> "name48"], [code |-> "49", name |-> "name49"]>>,
    (* I: 卸売業，小売業 (line 86) *)
    <<[code |-> "50", name |-> "name50"], [code |-> "51", name |-> "name51"], [code |-> "52", name |-> "name52"], [code |-> "53", name |-> "name53"], [code |-> "54", name |-> "name54"], [code |-> "55", name |-> "name55"], [code |-> "56", name |-> "name56"], [code |-> "57", name |-> "name57"], [code |-> "58", name |-> "name58"], [code |-> "59", name |-> "name59"], [code |-> "60", name |-> "name60"], [code |-> "61", name |-> "name61"]>>,
    (* J: 金融業，保険業 (line 100) *)
    <<[code |-> "62", name |-> "name62"], [code |-> "63", name |-> "name63"], [code |-> "64", name |-> "name64"], [code |-> "65", name |-> "name65"], [code |-> "66", name |-> "name66"], [code |-> "67", name |-> "name67"]>>,
    (* K: 不動産業，物品賃貸業 (line 108) *)
    <<[code |-> "68", name |-> "name68"], [code |-> "69", name |-> "name69"], [code |-> "70", name |-> "name70"]>>,
    (* L: 学術研究，専門・技術サービス業 (line 113) *)
    <<[code |-> "71", name |-> "name71"], [code |-> "72", name |-> "name72"], [code |-> "73", name |-> "name73"], [code |-> "74", name |-> "name74"]>>,
    (* M: 宿泊業，飲食サービス業 (line 119) *)
    <<[code |-> "75", name |-> "name75"], [code |-> "76", name |-> "name76"], [code |-> "77", name |-> "name77"]>>,
    (* N: 生活関連サービス業，娯楽業 (line 124) *)
    <<[code |-> "78", name |-> "name78"], [code |-> "79", name |-> "name79"], [code |-> "80", name |-> "name80"]>>,
    (* O: 教育，学習支援業 (line 129) *)
    <<[code |-> "81", name |-> "name81"], [code |-> "82", name |-> "name82"]>>,
    (* P: 医療，福祉 (line 133) *)
    <<[code |-> "83", name |-> "name83"], [code |-> "84", name |-> "name84"], [code |-> "85", name |-> "name85"]>>,
    (* Q: 複合サービス事業 (line 138) *)
    <<[code |-> "86", name |-> "name86"], [code |-> "87", name |-> "name87"]>>,
    (* R: サービス業（他に分類されないもの） (line 142) *)
    <<[code |-> "88", name |-> "name88"], [code |-> "89", name |-> "name89"], [code |-> "90", name |-> "name90"], [code |-> "91", name |-> "name91"], [code |-> "92", name |-> "name92"], [code |-> "93", name |-> "name93"], [code |-> "94", name |-> "name94"], [code |-> "95", name |-> "name95"]>>,
    (* S: 公務（他に分類されるものを除く） (line 152) *)
    <<[code |-> "96", name |-> "name96"], [code |-> "97", name |-> "name97"], [code |-> "98", name |-> "name98"]>>,
    (* T: 分類不能の産業 (line 157) *)
    <<[code |-> "99", name |-> "name99"]>>
>>
industry_major_mid == [m \in Range(MajorLabels) |-> MidTable[IndexOf(MajorLabels, m)]]
major_opts == MajorLabels

CUSTOMERS == <<"BtoC","BtoB","koreisha","jakunenso","inbound">>
PRICES == <<"teikakaku","chukakaku","kokakaku">>
CHANNELS == <<"tenpo","homon","online","tenpo_online">>
INT_FIELDS == <<"jugyoin_su">>

(***************************************************************************)
(* Characters (code points)                                                *)
(***************************************************************************)
Comma == 44            \* ","
Period == 46           \* "."
Digit0 == 48           \* "0"
FwDigit0 == 65296      \* "０" U+FF10
FwComma == 65292       \* "，" U+FF0C
FwPeriod == 65294      \* "．" U+FF0E
Space == 32            \* " "
FwSpace == 12288       \* "　" U+3000

\* str.isspace() of one character: the characters str.strip() removes
IsSpace(c) ==
    \/ c \in 9..13 \/ c \in 28..32 \/ c = 133 \/ c = 160 \/ c = 5760
    \/ c \in 8192..8202 \/ c = 8232 \/ c = 8233 \/ c = 8239 \/ c = 8287 \/ c = 12288

\* str.isdigit() of one character: the 788 code points whose Numeric_Type is
\* Digit or Decimal (Unicode 14, the tables of CPython 3.11)
IsDigitChar(c) ==
    \/ c \in 48..57 \/ c \in 178..179 \/ c = 185 \/ c \in 1632..1641
    \/ c \in 1776..1785 \/ c \in 1984..1993 \/ c \in 2406..2415 \/ c \in 2534..2543
    \/ c \in 2662..2671 \/ c \in 2790..2799 \/ c \in 2918..2927 \/ c \in 3046..3055
    \/ c \in 3174..3183 \/ c \in 3302..3311 \/ c \in 3430..3439 \/ c \in 3558..3567
    \/ c \in 3664..3673 \/ c \in 3792..3801 \/ c \in 3872..3881 \/ c \in 4160..4169
    \/ c \in 4240..4249 \/ c \in 4969..4977 \/ c \in 6112..6121 \/ c \in 6160..6169
    \/ c \in 6470..6479 \/ c \in 6608..6618 \/ c \in 6784..6793 \/ c \in 6800..6809
    \/ c \in 6992..7001 \/ c \in 7088..7097 \/ c \in 7232..7241 \/ c \in 7248..7257
    \/ c = 8304 \/ c \in 8308..8313 \/ c \in 8320..8329 \/ c \in 9312..9320
    \/ c \in 9332..9340 \/ c \in 9352..9360 \/ c = 9450 \/ c \in 9461..9469
    \/ c = 9471 \/ c \in 10102..10110 \/ c \in 10112..10120 \/ c \in 10122..10130
    \/ c \in 42528..42537 \/ c \in 43216..43225 \/ c \in 43264..43273 \/ c \in 43472..43481
    \/ c \in 43504..43513 \/ c \in 43600..43609 \/ c \in 44016..44025 \/ c \in 65296..65305
    \/ c \in 66720..66729 \/ c \in 68160..68163 \/ c \in 68912..68921 \/ c \in 69216..69224
    \/ c \in 69714..69722 \/ c \in 69734..69743 \/ c \in 69872..69881 \/ c \in 69942..69951
    \/ c \in 70096..70105 \/ c \in 70384..70393 \/ c \in 70736..70745 \/ c \in 70864..70873
    \/ c \in 71248..71257 \/ c \in 71360..71369 \/ c \in 71472..71481 \/ c \in 71904..71913
    \/ c \in 72016..72025 \/ c \in 72784..72793 \/ c \in 73040..73049 \/ c \in 73120..73129
    \/ c \in 92768..92777 \/ c \in 92864..92873 \/ c \in 93008..93017 \/ c \in 120782..120831
    \/ c \in 123200..123209 \/ c \in 123632..123641 \/ c \in 125264..125273 \/ c \in 127232..127242
    \/ c \in 130032..130041

\* JP_MAP = str.maketrans("０１２３４５６７８９．，", "0123456789..")
JP_MAP(c) ==
    IF c \in FwDigit0..(FwDigit0 + 9) THEN Digit0 + (c - FwDigit0)
    ELSE IF c = FwPeriod THEN Period
    ELSE IF c = FwComma THEN Period
    ELSE c

translate(v) == [i \in 1..Len(v) |-> JP_MAP(v[i])]
replace(v, c) == SelectSeq(v, LAMBDA x : x # c)      \* v.replace(c, "")

RECURSIVE lstrip(_)
lstrip(v) == IF v # <<>> /\ IsSpace(Head(v)) THEN lstrip(Tail(v)) ELSE v
RECURSIVE rstrip(_)
rstrip(v) == IF v # <<>> /\ IsSpace(v[Len(v)]) THEN rstrip(SubSeq(v, 1, Len(v) - 1)) ELSE v
strip(v) == rstrip(lstrip(v))

isdigit(v) == v # <<>> /\ \A i \in 1..Len(v) : IsDigitChar(v[i])

\* the separators removed after the whitespace was trimmed
to_half_strip_first(v) == replace(replace(strip(translate(v)), Comma), FwComma)

\* v.translate(JP_MAP).replace(",","").replace("，","").strip()
to_half(v) == strip(replace(replace(translate(v), Comma), FwComma))

\* v and to_half(v).isdigit()
is_int(v) == v # <<>> /\ isdigit(to_half(v))

char_len(s) == Len(s)

(***************************************************************************)
(* validate()                                                              *)
(***************************************************************************)
MsgRequired == "hissu_nyuryoku"        \* "必須入力です"
MsgSelectOne == "hitotsu_ijo_sentaku"  \* "1 つ以上選択してください"
MsgLength == "100_200_moji"            \* "100〜200文字で入力してください"
MsgInteger == "seisu_de_nyuryoku"      \* "整数で入力してください"

\* keys whose values are text or lists (sequences); the others hold option labels
SeqKeys == {"omona_shohin_service", "kokyakuso", "jugyoin_su", "arari_ritsu"}
EmptyOf(k) == IF k \in SeqKeys THEN <<>> ELSE ""
\* bool(d.get(k))
Truthy(d, k) == k \in DOMAIN d /\ d[k] # EmptyOf(k)

req_no_kokyakuso == <<"gyoshu_daibunrui", "gyoshu_chubunrui", "pref_name", "city_name",
                      "omona_shohin_service", "kakakutai", "hanbai_hoho">>

req == <<"gyoshu_daibunrui", "gyoshu_chubunrui", "pref_name", "city_name",
         "omona_shohin_service", "kokyakuso", "kakakutai", "hanbai_hoho">>

LenInRange_exclusive(L) == 100 < L /\ L < 200

\* 100<=char_len(prod)<=200
LenInRange(L) == 100 <= L /\ L <= 200

ErrRequired(d) == {k \in Range(req) : ~Truthy(d, k)}
ErrSelectOne(d) == {k \in {"kokyakuso"} : k \in DOMAIN d /\ d[k] = <<>>}
ErrLength(d) == {k \in {"omona_shohin_service"} :
                    Truthy(d, k) /\ ~LenInRange(char_len(d[k]))}
ErrInteger(d) == {f \in Range(INT_FIELDS) : Truthy(d, f) /\ ~is_int(d[f])}

\* the assignments to e in program order: a later one overwrites an earlier one
validate(d) ==
    [k \in ErrRequired(d) \cup ErrSelectOne(d) \cup ErrLength(d) \cup ErrInteger(d) |->
        IF k \in ErrInteger(d) THEN MsgInteger
        ELSE IF k \in ErrLength(d) THEN MsgLength
        ELSE IF k \in ErrSelectOne(d) THEN MsgSelectOne
        ELSE MsgRequired]

(***************************************************************************)
(* City master (load_city_master): a stand-in for the spreadsheet, rows in *)
(* file order.  SortKey is the first code point of the Japanese name, the  *)
(* order sorted() puts the names in.                                       *)
(***************************************************************************)
city_master == <<
    [pref_name |-> "Hokkaido", pref_code |-> "01", city_name |-> "Sapporo",  city_code |-> "01100"],
    [pref_name |-> "Hokkaido", pref_code |-> "01", city_name |-> "Otaru", city_code |-> "01203"],
    [pref_name |-> "Aomori",   pref_code |-> "02", city_name |-> "Aomori_shi", city_code |-> "02201"] >>

SortKey(n) ==
    CASE n = "Hokkaido" -> 21271      \* 北
      [] n = "Aomori" -> 38738        \* 青
      [] n = "Sapporo" -> 26413       \* 札
      [] n = "Otaru" -> 23567         \* 小
      [] n = "Aomori_shi" -> 38738    \* 青

RECURSIVE unique(_)
unique(seq) ==
    IF seq = <<>> THEN <<>>
    ELSE LET r == unique(SubSeq(seq, 1, Len(seq) - 1))
         IN IF seq[Len(seq)] \in Range(r) THEN r ELSE Append(r, seq[Len(seq)])

RECURSIVE sorted(_)
sorted(seq) ==
    IF seq = <<>> THEN <<>>
    ELSE LET m == CHOOSE i \in 1..Len(seq) : \A j \in 1..Len(seq) : SortKey(seq[i]) <= SortKey(seq[j])
         IN <<seq[m]>> \o sorted([i \in 1..(Len(seq) - 1) |-> IF i < m THEN seq[i] ELSE seq[i + 1]])

Column(rows, c) == [i \in 1..Len(rows) |-> rows[i][c]]
PrefNames == unique(Column(city_master, "pref_name"))
RowsOfPref(p) == SelectSeq(city_master, LAMBDA r : r.pref_name = p)
CitiesOf(p) == unique(Column(RowsOfPref(p), "city_name"))
RowsOfCity(p, c) == SelectSeq(city_master, LAMBDA r : r.pref_name = p /\ r.city_name = c)

(***************************************************************************)
(* Widgets.  Streamlit identifies a widget by its label and parameters     *)
(* (options, index=, value=, default=).  wstate holds, for every widget on *)
(* screen, the parameters it was rendered with (id) and the value it       *)
(* shows (val).  A widget call returns the value on screen when a widget   *)
(* with the same identity is on screen, and its default otherwise: an      *)
(* entry made on a widget whose parameters change in the next run is lost. *)
(***************************************************************************)
DisplayOpts == <<"code_name", "code_only">>     \* ["コード＋名称","コードのみ"]
WidgetNames == <<"display", "major", "mid", "pref", "city", "emp", "prod", "cust", "price", "channel">>
WidgetStage(w) == IndexOf(WidgetNames, w)

Returned(ws, w, id, dflt) == IF w \in DOMAIN ws /\ ws[w].id = id THEN ws[w].val ELSE dflt

\* label of one mid-category entry, as its whitespace-separated words
Label(e, display) == IF display = "code_only" THEN <<e.code>> ELSE <<e.code, e.name>>
Labels(mids, display) == [i \in 1..Len(mids) |-> Label(mids[i], display)]

\* sel = next((i for i,d in enumerate(mids) if d["code"]==ui["業種_中分類"]),0)
Sel(mids, code) ==
    IF \E i \in 1..Len(mids) : mids[i].code = code
    THEN CHOOSE i \in 1..Len(mids) : mids[i].code = code /\ \A j \in 1..(i-1) : mids[j].code # code
    ELSE 1

\* st.radio("表示形式", [...]): no parameter depends on the record
DisplayWidget(ws) ==
    [id |-> <<>>, val |-> Returned(ws, "display", <<>>, DisplayOpts[1])]

\* st.selectbox("大分類", major_opts, index=major_opts.index(ui["業種_大分類"]))
MajorWidget(ws, d) ==
    LET index == IndexOf(major_opts, d["gyoshu_daibunrui"])
    IN [id |-> index, val |-> Returned(ws, "major", index, major_opts[index])]

\* the mid select box lists the entries of the stored major category, not of
\* the one just chosen
MidWidget_stale(ws, d, major, display) ==
    LET mids == industry_major_mid[d["gyoshu_daibunrui"]]
        id == <<Labels(mids, display), Sel(mids, d["gyoshu_chubunrui"])>>
    IN [id |-> id, val |-> Returned(ws, "mid", id, id[1][id[2]])]

\* choice = st.selectbox("中分類", labels, index=sel)
MidWidget(ws, d, major, display) ==
    LET mids == industry_major_mid[major]
        id == <<Labels(mids, display), Sel(mids, d["gyoshu_chubunrui"])>>
    IN [id |-> id, val |-> Returned(ws, "mid", id, id[1][id[2]])]

\* st.selectbox("都道府県", sorted(...unique()), index=list(...unique()).index(ui["pref_name"]))
PrefWidget(ws, d) ==
    LET index == IndexOf(PrefNames, d["pref_name"])
    IN [id |-> index, val |-> Returned(ws, "pref", index, sorted(PrefNames)[index])]

\* st.selectbox("市区町村", sorted(cities), index=... if ui["city_name"] in cities else 0)
CityWidget(ws, d, pref_name) ==
    LET cities == CitiesOf(pref_name)
        id == <<sorted(cities), IF d["city_name"] \in Range(cities)
                                THEN IndexOf(cities, d["city_name"]) ELSE 1>>
    IN [id |-> id, val |-> Returned(ws, "city", id, id[1][id[2]])]

\* st.text_input / st.text_area / st.multiselect: the parameter is the stored value
ValueWidget(ws, d, w, k) ==
    LET value == Get(d, k, <<>>)
    IN [id |-> value, val |-> Returned(ws, w, value, value)]

\* st.radio(label, opts, index=opts.index(ui.get(k, dflt)))
RadioWidget(ws, d, w, k, opts, dflt) ==
    LET index == IndexOf(opts, Get(d, k, dflt))
    IN [id |-> index, val |-> Returned(ws, w, index, opts[index])]

\* every widget as one complete script run renders it
Rendered(ws, d) ==
    LET display == DisplayWidget(ws)
        major == MajorWidget(ws, d)
        pref == PrefWidget(ws, d)
    IN [display |-> display,
        major |-> major,
        mid |-> MidWidget(ws, d, major.val, display.val),
        pref |-> pref,
        city |-> CityWidget(ws, d, pref.val),
        emp |-> ValueWidget(ws, d, "emp", "jugyoin_su"),
        prod |-> ValueWidget(ws, d, "prod", "omona_shohin_service"),
        cust |-> ValueWidget(ws, d, "cust", "kokyakuso"),
        price |-> RadioWidget(ws, d, "price", "kakakutai", PRICES, PRICES[2]),
        channel |-> RadioWidget(ws, d, "channel", "hanbai_hoho", CHANNELS, CHANNELS[1])]

(***************************************************************************)
(* The script body                                                         *)
(***************************************************************************)
\* ui.setdefault(...) of the five keys
Defaults(d) ==
    LET d1 == SetDefault(d, "gyoshu_daibunrui", major_opts[1])
        d2 == SetDefault(d1, "gyoshu_chubunrui", industry_major_mid[major_opts[1]][1].code)
        d3 == SetDefault(d2, "mid_display", DisplayOpts[1])
        d4 == SetDefault(d3, "pref_name", city_master[1].pref_name)
    IN SetDefault(d4, "city_name", RowsOfPref(d4["pref_name"])[1].city_name)

\* the stage of the run that assigns key k: the position of the widget call
\* it is assigned from (prefecture and city are assigned after both calls)
KeyStage(k) ==
    CASE k = "mid_display" -> 1
      [] k = "gyoshu_daibunrui" -> 2
      [] k = "gyoshu_chubunrui" -> 3
      [] k \in {"pref_name", "city_name", "pref_code", "city_code"} -> 5
      [] k = "jugyoin_su" -> 6
      [] k = "omona_shohin_service" -> 7
      [] k = "kokyakuso" -> 8
      [] k = "kakakutai" -> 9
      [] k = "hanbai_hoho" -> 10
      [] OTHER -> 99
AssignedKeys == {"mid_display", "gyoshu_daibunrui", "gyoshu_chubunrui", "pref_name", "city_name",
                 "pref_code", "city_code", "jugyoin_su", "omona_shohin_service", "kokyakuso",
                 "kakakutai", "hanbai_hoho"}
StageErrors == 10     \* errors.update(validate()) follows the last widget call at once
StageSave == 11       \* st.button("💾 保存", ...)
StageNext == 12       \* the second button; the run is complete

\* the value the script assigns to key k from the rendered widgets r
AssignedValue(k, r) ==
    CASE k = "mid_display" -> r["display"].val
      [] k = "gyoshu_daibunrui" -> r["major"].val
      [] k = "gyoshu_chubunrui" -> Head(r["mid"].val)          \* choice.split()[0]
      [] k = "pref_name" -> r["pref"].val
      [] k = "city_name" -> r["city"].val
      [] k = "pref_code" -> RowsOfPref(r["pref"].val)[1].pref_code
      [] k = "city_code" -> RowsOfCity(r["pref"].val, r["city"].val)[1].city_code
      [] k = "jugyoin_su" -> r["emp"].val
      [] k = "omona_shohin_service" -> r["prod"].val
      [] k = "kokyakuso" -> r["cust"].val
      [] k = "kakakutai" -> r["price"].val
      [] k = "hanbai_hoho" -> r["channel"].val

\* the record after the stages up to c of a run that began with record d
\* (defaults set) and rendered widgets r
Body(d, r, c) ==
    [k \in (DOMAIN d) \cup {x \in AssignedKeys : KeyStage(x) <= c} |->
        IF KeyStage(k) <= c THEN AssignedValue(k, r) ELSE d[k]]

\* the widgets on screen after the stages up to c; a complete run drops the rest
Screen(ws, r, c) ==
    [w \in (IF c = StageNext THEN {} ELSE DOMAIN ws) \cup {x \in Range(WidgetNames) : WidgetStage(x) <= c} |->
        IF WidgetStage(w) <= c THEN r[w] ELSE ws[w]]

(***************************************************************************)
(* What the user can enter: one entry on one widget on screen, other than  *)
(* the value shown                                                         *)
(***************************************************************************)
TextOfLen(n) == [i \in 1..n |-> 97]
ProdInputs == {TextOfLen(n) : n \in {99, 100}}
EmpInputs == { <<>>, <<49, 48>>, <<45, 53>> }    \* "", "10", "-5"
NoDup(q) == \A i, j \in 1..Len(q) : i # j => q[i] # q[j]
CustInputs == {q \in UNION {[1..n -> {CUSTOMERS[i] : i \in 1..NumCustomers}] : n \in 0..NumCustomers} : NoDup(q)}
MajorInputs == {major_opts[i] : i \in 1..NumMajors}

NoEvent == [w |-> "none", v |-> 0]
Offered(ws, w) ==
    CASE w = "display" -> Range(DisplayOpts)
      [] w = "major" -> MajorInputs
      [] w = "mid" -> Range(ws[w].id[1])
      [] w = "pref" -> Range(PrefNames)
      [] w = "city" -> Range(ws[w].id[1])
      [] w = "emp" -> EmpInputs
      [] w = "prod" -> ProdInputs
      [] w = "cust" -> CustInputs
      [] w = "price" -> {PRICES[i] : i \in 1..NumRadio}
      [] w = "channel" -> {CHANNELS[i] : i \in 1..NumRadio}
Entries(ws, w) ==
    IF w \in DOMAIN ws THEN {[w |-> w, v |-> x] : x \in Offered(ws, w) \ {ws[w].val}} ELSE {}
\* the widget values the browser sends with the run the entry triggers
Enter(ws, ev) == IF ev.w = "none" THEN ws ELSE [ws EXCEPT ![ev.w].val = ev.v]

(***************************************************************************)
(* Downstream artifacts and the step counter (kept by the later pages)     *)
(***************************************************************************)
ARTIFACTS == <<"external_out", "deep_dive_qa", "swot_out", "rootcause_out", "action_result">>
InitialStep == 0
NoButtons == [save |-> FALSE, next |-> FALSE]

(***************************************************************************)
(* The session                                                             *)
(***************************************************************************)
FnIdle == inp = <<>> /\ out = <<>> /\ out2 = <<>>

Init ==
    /\ ui = EmptyDict
    /\ errors = EmptyDict
    /\ wstate = EmptyDict
    /\ btn = NoButtons
    /\ artifacts = {}
    /\ step = InitialStep
    /\ page = "form"
    /\ nextExists \in BOOLEAN
    /\ accepted \in BOOLEAN
    /\ entries = 0
    /\ partials = 0
    /\ pc = "rerun"
    /\ last = "init"
    /\ FnIdle

\* one run of the script, triggered by ev, through the stages up to some c of
\* C; the run is complete when c is the last stage
RunTo(ev, C) ==
    \E d \in {Defaults(ui)}, ws \in {Enter(wstate, ev)} :
    \E r \in {Rendered(ws, d)}, c \in C :
    \E after \in {Body(d, r, c)} :
    \E shown \in {IF c >= StageErrors THEN validate(after) ELSE errors} :    \* errors.update(validate())
        /\ ui' = after
        /\ wstate' = Screen(ws, r, c)
        /\ errors' = shown
        /\ btn' = [save |-> IF c >= StageSave THEN DOMAIN shown = {} ELSE btn.save,
                   next |-> IF c >= StageNext THEN nextExists /\ DOMAIN shown = {} ELSE btn.next]
        /\ entries' = IF ev.w = "none" THEN entries ELSE entries + 1
        /\ partials' = IF c = StageNext THEN partials ELSE partials + 1
        /\ last' = IF c = StageNext THEN "render" ELSE "partial"
        /\ pc' = "idle"
        /\ UNCHANGED <<artifacts, step, page, nextExists, accepted, inp, out, out2>>

\* the interpreter rejects the file: U+30FB in the name at line 201 is an
\* identifier character only from Unicode 15.1 on
Rejected ==
    /\ pc = "rerun" /\ page = "form" /\ ~accepted
    /\ pc' = "halted"
    /\ last' = "syntax_error"
    /\ UNCHANGED <<ui, errors, wstate, btn, artifacts, step, page, nextExists, accepted, entries,
                   partials, inp, out, out2>>

\* the run that follows a callback or a page switch: no widget changed
Rerun ==
    /\ pc = "rerun" /\ page = "form" /\ accepted
    /\ RunTo(NoEvent, {StageNext})

\* the run that follows an entry on a widget
Interact ==
    /\ pc = "idle" /\ page = "form" /\ entries < MaxEntries
    /\ \E w \in Range(WidgetNames) : \E ev \in Entries(wstate, w) : RunTo(ev, {StageNext})

\* a run stopped at a Streamlit call because the next event arrived: the
\* stages up to c are done, the rest of the screen is that of earlier runs
Interrupted ==
    /\ page = "form" /\ accepted /\ partials < MaxPartial
    /\ \/ pc = "rerun" /\ RunTo(NoEvent, 0..(StageNext - 1))
       \/ pc = "idle" /\ entries < MaxEntries /\ \E w \in Range(WidgetNames) : \E ev \in Entries(wstate, w) :
                            RunTo(ev, 0..(StageNext - 1))

\* st.button("💾 保存", on_click=save, disabled=bool(errors)) as it is on screen
SaveEnabled == pc = "idle" /\ page = "form" /\ btn.save
\* st.button("👉 次へ進む", disabled=bool(errors), ...) as it is on screen
NextEnabled == pc = "idle" /\ page = "form" /\ btn.next

\* def save(): st.session_state["user_input"] = ui
save ==
    /\ SaveEnabled
    /\ ui' = ui
    /\ pc' = "rerun"
    /\ last' = "save"
    /\ UNCHANGED <<errors, wstate, btn, artifacts, step, page, nextExists, accepted, entries,
                   partials, inp, out, out2>>

\* on_click=lambda: st.switch_page(NEXT_PAGE); the form leaves the screen
NextPage ==
    /\ NextEnabled
    /\ page' = "next"
    /\ wstate' = EmptyDict
    /\ btn' = NoButtons
    /\ last' = "next"
    /\ UNCHANGED <<ui, errors, artifacts, step, nextExists, accepted, entries, partials, pc, inp, out, out2>>

\* a later page stores its output and advances the step counter
RunDownstream ==
    /\ page = "next" /\ step < MaxDownstream
    /\ artifacts' = artifacts \cup {ARTIFACTS[step + 1]}
    /\ step' = step + 1
    /\ last' = "downstream"
    /\ UNCHANGED <<ui, errors, wstate, btn, page, nextExists, accepted, entries, partials, pc, inp, out, out2>>

\* navigation back to the form
BackToForm ==
    /\ page = "next"
    /\ page' = "form"
    /\ pc' = "rerun"
    /\ last' = "back"
    /\ UNCHANGED <<ui, errors, wstate, btn, artifacts, step, nextExists, accepted, entries, partials,
                   inp, out, out2>>

\* a reset that leaves the downstream artifacts in place
Reset_record_only ==
    /\ pc = "idle" /\ page = "form"
    /\ ui' = EmptyDict
    /\ step' = InitialStep
    /\ wstate' = EmptyDict
    /\ btn' = NoButtons
    /\ pc' = "rerun"
    /\ last' = "reset"
    /\ UNCHANGED <<errors, artifacts, page, nextExists, accepted, entries, partials, inp, out, out2>>

\* the reset operation: the record and every downstream artifact are dropped
\* and the step counter returns to its initial value, in one step; the form
\* is then drawn anew, as at the start of a session
Reset ==
    /\ pc = "idle" /\ page = "form"
    /\ ui' = EmptyDict
    /\ artifacts' = {}
    /\ step' = InitialStep
    /\ wstate' = EmptyDict
    /\ btn' = NoButtons
    /\ pc' = "rerun"
    /\ last' = "reset"
    /\ UNCHANGED <<errors, page, nextExists, accepted, entries, partials, inp, out, out2>>

Next == Rerun \/ Rejected \/ Interact \/ Interrupted \/ save \/ NextPage \/ RunDownstream
            \/ BackToForm \/ Reset

Spec == Init /\ [][Next]_vars

(***************************************************************************)
(* to_half on its own: the argument is drawn from the strings of at most   *)
(* MaxLen characters over NormAlphabet, then normalized once and again.    *)
(***************************************************************************)
\* "1", "２", ",", "，", ".", "．", " ", "　", "-"
NormAlphabet == {49, 65298, Comma, FwComma, Period, FwPeriod, Space, FwSpace, 45}
StringsOver(A, n) == UNION {[1..k -> A] : k \in 0..n}

SessionIdle ==
    /\ errors = EmptyDict /\ wstate = EmptyDict /\ btn = NoButtons /\ artifacts = {}
    /\ step = InitialStep /\ page = "form" /\ nextExists = FALSE /\ accepted = TRUE
    /\ entries = 0
    /\ partials = 0 /\ last = "init"

InitNorm ==
    /\ inp \in StringsOver(NormAlphabet, MaxLen)
    /\ out = <<>> /\ out2 = <<>>
    /\ ui = EmptyDict
    /\ pc = "norm0"
    /\ SessionIdle

ApplyToHalf ==
    /\ pc = "norm0"
    /\ out' = to_half(inp)
    /\ pc' = "norm1"
    /\ UNCHANGED <<ui, errors, wstate, btn, artifacts, step, page, nextExists, accepted, entries, partials,
                   last, inp, out2>>

ApplyToHalfAgain ==
    /\ pc = "norm1"
    /\ out2' = to_half(out)
    /\ pc' = "norm2"
    /\ UNCHANGED <<ui, errors, wstate, btn, artifacts, step, page, nextExists, accepted, entries, partials,
                   last, inp, out>>

NextNorm == ApplyToHalf \/ ApplyToHalfAgain

SpecNorm == InitNorm /\ [][NextNorm]_vars

(***************************************************************************)
(* validate() on its own: the record is drawn from ValInputs               *)
(***************************************************************************)
AbsentText == <<-1>>             \* marks a text key that is not in the record
AbsentList == <<"absent">>       \* marks a list key that is not in the record
AbsentLabel == "absent"          \* marks a label key that is not in the record

\* "1", "２", ",", "，", "-", " ", "²"
EmpAlphabet == {49, 65298, Comma, FwComma, 45, Space, 178}
ValProd == {AbsentText} \cup {TextOfLen(n) : n \in {0, 99, 100, 150, 200, 201}}
ValCust == {AbsentList, <<>>, <<CUSTOMERS[1]>>}
ValEmp == {AbsentText} \cup StringsOver(EmpAlphabet, MaxEmpLen)
ValGross == {AbsentText,
             <<45, 49, 48, 48>>,                 \* "-100"
             <<45, 49, 48, 48, 46, 48, 49>>,     \* "-100.01"
             <<49, 48, 48, 46, 53>>}             \* "100.5"
ValPrice == {AbsentLabel, PRICES[2]}

PutUnless(d, k, v, absent) == IF v = absent THEN d ELSE Put(d, k, v)

BaseRecord ==
    [gyoshu_daibunrui |-> major_opts[1], gyoshu_chubunrui |-> "01", mid_display |-> DisplayOpts[1],
     pref_name |-> "Hokkaido", city_name |-> "Sapporo", pref_code |-> "01", city_code |-> "01100",
     hanbai_hoho |-> CHANNELS[1]]

MkRecord(p, c, e, g, pr) ==
    PutUnless(PutUnless(PutUnless(PutUnless(PutUnless(BaseRecord,
        "omona_shohin_service", p, AbsentText),
        "kokyakuso", c, AbsentList),
        "jugyoin_su", e, AbsentText),
        "arari_ritsu", g, AbsentText),
        "kakakutai", pr, AbsentLabel)

ValInputs == {MkRecord(p, c, e, g, pr) :
                p \in ValProd, c \in ValCust, e \in ValEmp, g \in ValGross, pr \in ValPrice}

InitValidate ==
    /\ ui \in ValInputs
    /\ pc = "val0"
    /\ FnIdle
    /\ SessionIdle

ApplyValidate ==
    /\ pc = "val0"
    /\ errors' = validate(ui)
    /\ pc' = "val1"
    /\ UNCHANGED <<ui, wstate, btn, artifacts, step, page, nextExists, accepted, entries, partials,
                   last, inp, out, out2>>

NextValidate == ApplyValidate

SpecValidate == InitValidate /\ [][NextValidate]_vars

(***************************************************************************)
(* Properties                                                              *)
(***************************************************************************)
KeysOf(d) == DOMAIN d
AllValid(d) == KeysOf(validate(d)) = {}

\* C1: the save button and the next-page button are enabled only when
\* validate() on the current record returns no error; with at least one
\* field error both are blocked.
C1_SaveOnlyWhenValid == (SaveEnabled \/ NextEnabled) => AllValid(ui)

\* a text value is a sequence of characters; a parsed number is not
IsText(v) == DOMAIN v = 1..Len(v)

\* C2: a successful save leaves no downstream artifact in the session and
\* stores the integer fields of the record as parsed numbers, not as text.
C2_SaveClearsDownstream ==
    last = "save" =>
        /\ artifacts = {}
        /\ \A f \in Range(INT_FIELDS) : Truthy(ui, f) => ~IsText(ui[f])

\* C3: right after a reset the record is empty, no downstream artifact is
\* left and the step counter has its initial value, whatever the session
\* held before.
C3_ResetClearsAll ==
    last = "reset" => (ui = EmptyDict /\ artifacts = {} /\ step = InitialStep)

\* the state a reset leaves, before the script runs again
C3_Witness == last = "reset" /\ pc = "rerun" /\ KeysOf(ui) = {}

\* what the contract asks of the normalizer: both commas dropped, full-width
\* digits and decimal point mapped to half-width, surrounding whitespace trimmed
HalfWidth(c) ==
    IF c \in FwDigit0..(FwDigit0 + 9) THEN Digit0 + (c - FwDigit0)
    ELSE IF c = FwPeriod THEN Period
    ELSE c
ContractNormalize(v) ==
    LET kept == SelectSeq(v, LAMBDA c : c # Comma /\ c # FwComma)
    IN strip([i \in 1..Len(kept) |-> HalfWidth(kept[i])])

\* C4: for every string, to_half removes ASCII and full-width commas, maps
\* full-width digits and the full-width decimal point to half-width and
\* trims surrounding whitespace.
C4_ToHalfMeetsContract == pc \in {"norm1", "norm2"} => out = ContractNormalize(inp)

\* C5: to_half is idempotent: to_half(to_half(s)) equals to_half(s).
C5_ToHalfIdempotent == pc = "norm2" => out2 = out

\* a string with a separator in front of inner whitespace, normalized twice
C5_Witness == pc = "norm2" /\ inp = <<Comma, Space, 49>> /\ out = <<49>> /\ out2 = <<49>>

\* int() accepts the text: an optional sign, then decimal digits only (the
\* 660 code points of category Nd)
IsDecimalChar(c) ==
    \/ c \in 48..57 \/ c \in 1632..1641 \/ c \in 1776..1785 \/ c \in 1984..1993
    \/ c \in 2406..2415 \/ c \in 2534..2543 \/ c \in 2662..2671 \/ c \in 2790..2799
    \/ c \in 2918..2927 \/ c \in 3046..3055 \/ c \in 3174..3183 \/ c \in 3302..3311
    \/ c \in 3430..3439 \/ c \in 3558..3567 \/ c \in 3664..3673 \/ c \in 3792..3801
    \/ c \in 3872..3881 \/ c \in 4160..4169 \/ c \in 4240..4249 \/ c \in 6112..6121
    \/ c \in 6160..6169 \/ c \in 6470..6479 \/ c \in 6608..6617 \/ c \in 6784..6793
    \/ c \in 6800..6809 \/ c \in 6992..7001 \/ c \in 7088..7097 \/ c \in 7232..7241
    \/ c \in 7248..7257 \/ c \in 42528..42537 \/ c \in 43216..43225 \/ c \in 43264..43273
    \/ c \in 43472..43481 \/ c \in 43504..43513 \/ c \in 43600..43609 \/ c \in 44016..44025
    \/ c \in 65296..65305 \/ c \in 66720..66729 \/ c \in 68912..68921 \/ c \in 69734..69743
    \/ c \in 69872..69881 \/ c \in 69942..69951 \/ c \in 70096..70105 \/ c \in 70384..70393
    \/ c \in 70736..70745 \/ c \in 70864..70873 \/ c \in 71248..71257 \/ c \in 71360..71369
    \/ c \in 71472..71481 \/ c \in 71904..71913 \/ c \in 72016..72025 \/ c \in 72784..72793
    \/ c \in 73040..73049 \/ c \in 73120..73129 \/ c \in 92768..92777 \/ c \in 92864..92873
    \/ c \in 93008..93017 \/ c \in 120782..120831 \/ c \in 123200..123209 \/ c \in 123632..123641
    \/ c \in 125264..125273 \/ c \in 130032..130041
ParsesAsInt(v) ==
    LET body == IF v # <<>> /\ Head(v) \in {43, 45} THEN Tail(v) ELSE v
    IN body # <<>> /\ \A i \in 1..Len(body) : IsDecimalChar(body[i])

\* C6: validate() reports an error for the optional integer field exactly
\* when its normalized value is non-empty and does not parse as a base-10
\* integer; empty after normalization, negative numbers, full-width digits
\* and thousands separators produce no error.
C6_IntegerRule ==
    pc = "val1" =>
        \A f \in Range(INT_FIELDS) :
            (f \in KeysOf(errors)) <=>
                (f \in KeysOf(ui) /\ to_half(ui[f]) # <<>> /\ ~ParsesAsInt(to_half(ui[f])))

\* C7: validate() applies the percentage rule to the gross margin: "-100"
\* produces no error, "-100.01" and "100.5" each produce one.
C7_GrossMarginRule ==
    (pc = "val1" /\ "arari_ritsu" \in KeysOf(ui)) =>
        /\ ui["arari_ritsu"] = <<45, 49, 48, 48>> => "arari_ritsu" \notin KeysOf(errors)
        /\ ui["arari_ritsu"] = <<45, 49, 48, 48, 46, 48, 49>> => "arari_ritsu" \in KeysOf(errors)
        /\ ui["arari_ritsu"] = <<49, 48, 48, 46, 53>> => "arari_ritsu" \in KeysOf(errors)

\* C8: a non-empty description gets no error exactly when its character
\* count lies in [100, 200]: 99 and 201 are rejected, 100 and 200 accepted.
C8_DescriptionLength ==
    (pc = "val1" /\ Truthy(ui, "omona_shohin_service")) =>
        (("omona_shohin_service" \notin KeysOf(errors)) <=>
            (100 <= Len(ui["omona_shohin_service"]) /\ Len(ui["omona_shohin_service"]) <= 200))

\* a description of exactly 200 characters, accepted
C8_Witness ==
    /\ pc = "val1" /\ Truthy(ui, "omona_shohin_service")
    /\ Len(ui["omona_shohin_service"]) = 200
    /\ "omona_shohin_service" \notin KeysOf(errors)

\* C9: a record whose customer-segment selection is empty or absent gets an
\* error for the customer-segment field, whatever the other fields hold.
C9_CustomersRequired ==
    (pc = "val1" /\ ~Truthy(ui, "kokyakuso")) => "kokyakuso" \in KeysOf(errors)

\* a record without the customer-segment key, every other field valid
C9_Witness ==
    /\ pc = "val1" /\ "kokyakuso" \notin KeysOf(ui)
    /\ KeysOf(errors) = {"kokyakuso"}

MidCodes(m) == {industry_major_mid[m][i].code : i \in 1..Len(industry_major_mid[m])}

\* C10: after every completed script run the stored mid-category code is the
\* code of an entry listed under the stored major category; when the major
\* category changes to one that does not list the previous mid code, the mid
\* code becomes the first entry of the new major category.
C10_MidResolves ==
    [][last' = "render" =>
        /\ ui'["gyoshu_chubunrui"] \in MidCodes(ui'["gyoshu_daibunrui"])
        /\ ("gyoshu_daibunrui" \in KeysOf(ui)
              /\ ui'["gyoshu_daibunrui"] # ui["gyoshu_daibunrui"]
              /\ ui["gyoshu_chubunrui"] \notin MidCodes(ui'["gyoshu_daibunrui"]))
            => ui'["gyoshu_chubunrui"] = industry_major_mid[ui'["gyoshu_daibunrui"]][1].code]_vars

\* the second major category is shown (the session starts on the first one)
\* with the code-only format and its first mid code stored
C10_Witness ==
    /\ pc = "idle" /\ last = "render"
    /\ ui["gyoshu_daibunrui"] = major_opts[2]
    /\ ui["gyoshu_chubunrui"] = industry_major_mid[major_opts[2]][1].code
    /\ ui["mid_display"] = "code_only"
====
